---- MODULE Spec2Model ----
(***************************************************************************)
(* Shipping & Logistics Inventory API (src/main.py, src/schemas.py).       *)
(*                                                                         *)
(* The state is the three MongoDB collections the handlers read and write  *)
(* (inventorymovement, stock, shipment).  Spec runs every handler to       *)
(* completion as one step (requests arrive one after the other); StepSpec  *)
(* runs the handlers of one caller one database call at a time; ConcSpec   *)
(* interleaves the database calls of two callers.  Quantities are modelled *)
(* as integers.                                                            *)
(***************************************************************************)
EXTENDS Integers, Sequences, FiniteSets, Bags, TLC

\* ---------------------------------------------------------------- bounds
MaxMovements == 2          \* cap on the number of persisted movement records
MaxShipments == 1          \* cap on the number of shipment documents

\* ---------------------------------------------------------------- inputs
None == "None"                               \* Python's None
Warehouses == {"W1", "W2"}
Items == {"A", "B"}
MoveWarehouses == {"W1"}                     \* warehouses of direct movement requests
MoveItems == {"A"}                           \* items of direct movement requests
Types == {"in", "out", "adjust"}             \* "adjust" is not a documented type
Quantities == {-5, 0, 10}                 \* request quantities, valid or not
Statuses == {"created", "picked", "in_transit", "delivered", "cancelled"}
StatusInputs == Statuses \cup {"lost"}       \* "lost" is not a documented status
ShipmentInputs ==                            \* POST /shipments request bodies
    { [shipment_no |-> "SHP-1", origin_warehouse_id |-> "W1",
       destination_warehouse_id |-> "W2",
       items |-> <<[item_id |-> "A", quantity |-> 5]>>],
      [shipment_no |-> "SHP-1", origin_warehouse_id |-> "W1",
       destination_warehouse_id |-> None,
       items |-> <<[item_id |-> "A", quantity |-> 5], [item_id |-> "B", quantity |-> 5]>>],
      [shipment_no |-> "SHP-1", origin_warehouse_id |-> "W1",
       destination_warehouse_id |-> "W2",
       items |-> <<[item_id |-> "A", quantity |-> 0]>>] }
InvalidId == 0                               \* a path id that is no ObjectId
ShipmentIdInputs == 0 .. (MaxShipments + 1)

VARIABLES
    inventorymovement,   \* db["inventorymovement"]: bag of movement documents
    stock,               \* db["stock"]: sequence of stock documents, in insertion order
    shipment,            \* db["shipment"]: sequence of shipment documents, _id = index
    response,            \* the HTTP response of the last request (Spec)
    call                 \* per caller: the handler invocation in progress (ConcSpec)

vars == <<inventorymovement, stock, shipment, response, call>>

\* ------------------------------------------------------- schemas.py models
\* MovementItem: quantity: float = Field(..., gt=0)
MovementItem(it) == it.quantity > 0

\* mutant: the quantity field declared ge=0 instead of gt=0
InventoryMovement_ge(mv) == mv.quantity >= 0

\* InventoryMovement: type: str (unconstrained), quantity: float = Field(..., gt=0)
InventoryMovement(mv) == mv.quantity > 0

\* ShipmentCreate: items: List[MovementItem]
ShipmentCreate(payload) ==
    \A n \in 1 .. Len(payload.items) : MovementItem(payload.items[n])

\* ShipmentUpdateStatus: status: str (unconstrained)
ShipmentUpdateStatus(body) == TRUE

\* ------------------------------------------------------ database primitives
Min(S) == CHOOSE x \in S : \A y \in S : x <= y

\* collection.find_one(key): position of the first matching document, 0 for None
find_one(coll, key) ==
    LET hits == { n \in 1 .. Len(coll) :
                    /\ coll[n].warehouse_id = key.warehouse_id
                    /\ coll[n].item_id = key.item_id }
    IN  IF hits = {} THEN 0 ELSE Min(hits)

NoDoc == [found |-> FALSE, quantity |-> 0]     \* find_one returned None

\* the document handed back to the handler: a copy taken at read time
read_doc(coll, key) ==
    LET n == find_one(coll, key)
    IN  IF n = 0 THEN NoDoc
                 ELSE [found |-> TRUE, quantity |-> coll[n].quantity]

\* collection.update_one(key, {"$set": {"quantity": qty}}): first match only
update_one(coll, key, qty) ==
    LET n == find_one(coll, key)
    IN  IF n = 0 THEN coll ELSE [coll EXCEPT ![n].quantity = qty]

\* collection.insert_one(doc)
insert_one(coll, doc) == Append(coll, doc)

\* create_document("inventorymovement", mv): persists the movement record
create_document(coll, mv) == coll (+) SetToBag({mv})

\* to_obj_id: HTTP 400 unless the string is an ObjectId
to_obj_id(id_str) == id_str # InvalidId

\* mutant: a lookup that misses falls back to the newest shipment
find_shipment_or_last(coll, id) == IF id \in 1 .. Len(coll) THEN id ELSE Len(coll)

\* db["shipment"].find_one({"_id": ...}): 0 for None
find_shipment(coll, id) == IF id \in 1 .. Len(coll) THEN id ELSE 0

\* ----------------------------------------------------------- inventory_move
stock_key(mv) == [warehouse_id |-> mv.warehouse_id, item_id |-> mv.item_id]

\* mutant: the quantity of the stored document is not read
new_quantity_from_zero(doc, mv) ==
    IF mv.type = "in" THEN mv.quantity ELSE 0 - mv.quantity

\* mutant: an issue never takes the quantity below zero
new_quantity_floored(doc, mv) ==
    LET qty == IF doc.found THEN doc.quantity ELSE 0
    IN  IF mv.type = "in" THEN qty + mv.quantity
        ELSE IF qty - mv.quantity < 0 THEN 0 ELSE qty - mv.quantity

\* qty = doc.get("quantity", 0) if doc else 0
\* qty = qty + mv.quantity if mv.type == "in" else qty - mv.quantity
new_quantity(doc, mv) ==
    LET qty == IF doc.found THEN doc.quantity ELSE 0
    IN  IF mv.type = "in" THEN qty + mv.quantity ELSE qty - mv.quantity

\* if doc: update_one(...) else: insert_one(...)
write_stock(coll, doc, mv, qty) ==
    IF doc.found
    THEN update_one(coll, stock_key(mv), qty)
    ELSE insert_one(coll, [warehouse_id |-> mv.warehouse_id,
                           item_id |-> mv.item_id, quantity |-> qty])

\* the database after one inventory_move whose calls all succeed
inventory_move_db(db, mv) ==
    LET doc == read_doc(db.stock, stock_key(mv))
        qty == new_quantity(doc, mv)
    IN  [inventorymovement |-> create_document(db.inventorymovement, mv),
         stock |-> write_stock(db.stock, doc, mv, qty),
         quantity |-> qty]

\* inventory_move called for mvs[1], mvs[2], ... in order
RECURSIVE apply_moves(_, _)
apply_moves(db, mvs) ==
    IF mvs = <<>> THEN db
    ELSE apply_moves(inventory_move_db(db, Head(mvs)), Tail(mvs))

\* --------------------------------------------------- update_shipment_status
\* mutant: 'delivered' records inbound movements without testing the destination
shipment_moves_always_inbound(ship, status) ==
    IF status = "picked"
    THEN [n \in 1 .. Len(ship.items) |->
            [type |-> "out", warehouse_id |-> ship.origin_warehouse_id,
             item_id |-> ship.items[n].item_id, quantity |-> ship.items[n].quantity,
             reference |-> ship.shipment_no]]
    ELSE IF status = "delivered"
    THEN [n \in 1 .. Len(ship.items) |->
            [type |-> "in", warehouse_id |-> ship.destination_warehouse_id,
             item_id |-> ship.items[n].item_id, quantity |-> ship.items[n].quantity,
             reference |-> ship.shipment_no]]
    ELSE <<>>

\* mutant: cancelling returns every line to the origin warehouse
shipment_moves_reversing_cancel(ship, status) ==
    IF status \in {"picked", "cancelled"}
    THEN [n \in 1 .. Len(ship.items) |->
            [type |-> IF status = "picked" THEN "out" ELSE "in",
             warehouse_id |-> ship.origin_warehouse_id,
             item_id |-> ship.items[n].item_id, quantity |-> ship.items[n].quantity,
             reference |-> ship.shipment_no]]
    ELSE IF status = "delivered" /\ ship.destination_warehouse_id # None
    THEN [n \in 1 .. Len(ship.items) |->
            [type |-> "in", warehouse_id |-> ship.destination_warehouse_id,
             item_id |-> ship.items[n].item_id, quantity |-> ship.items[n].quantity,
             reference |-> ship.shipment_no]]
    ELSE <<>>

\* the movements update_shipment_status issues, from the shipment document it read
shipment_moves(ship, status) ==
    IF status = "picked"
    THEN [n \in 1 .. Len(ship.items) |->
            [type |-> "out", warehouse_id |-> ship.origin_warehouse_id,
             item_id |-> ship.items[n].item_id, quantity |-> ship.items[n].quantity,
             reference |-> ship.shipment_no]]
    ELSE IF status = "delivered" /\ ship.destination_warehouse_id # None
    THEN [n \in 1 .. Len(ship.items) |->
            [type |-> "in", warehouse_id |-> ship.destination_warehouse_id,
             item_id |-> ship.items[n].item_id, quantity |-> ship.items[n].quantity,
             reference |-> ship.shipment_no]]
    ELSE <<>>

\* db["shipment"].update_one({"_id": ...}, {"$set": {"status": status}})
set_status(coll, id, status) == [coll EXCEPT ![id].status = status]

\* ------------------------------------------------------------------ state
db == [inventorymovement |-> inventorymovement, stock |-> stock, quantity |-> 0]

NoResponse == [op |-> "none", code |-> 0, quantity |-> 0, body |-> <<>>]
Idle == [pc |-> "idle", op |-> "none", shipment_id |-> 0, status |-> None,
         ship |-> <<>>, todo |-> <<>>, doc |-> NoDoc, code |-> 0, quantity |-> 0]

Callers == {1, 2}

Init ==
    /\ inventorymovement = EmptyBag
    /\ stock = <<>>
    /\ shipment = <<>>
    /\ response = NoResponse
    /\ call = [c \in Callers |-> Idle]

\* ------------------------------------------------ handlers, run to completion
MovementInputs ==
    [type : Types, warehouse_id : MoveWarehouses, item_id : MoveItems,
     quantity : Quantities, reference : {None}]

\* POST /inventory/move.  Either create_document raises (StorageError) and the
\* handler ends there, or every call succeeds
inventory_move(mv) ==
    /\ IF ~InventoryMovement(mv)
       THEN /\ response' = [op |-> "inventory_move", code |-> 422,
                            quantity |-> 0, body |-> <<>>]
            /\ UNCHANGED <<inventorymovement, stock>>
       ELSE \/ /\ response' = [op |-> "inventory_move", code |-> 500,
                               quantity |-> 0, body |-> <<>>]
               /\ UNCHANGED <<inventorymovement, stock>>
            \/ LET after == inventory_move_db(db, mv)
               IN  /\ BagCardinality(inventorymovement) < MaxMovements
                   /\ inventorymovement' = after.inventorymovement
                   /\ stock' = after.stock
                   /\ response' = [op |-> "inventory_move", code |-> 200,
                                   quantity |-> after.quantity, body |-> <<>>]
    /\ UNCHANGED <<shipment, call>>

\* the query filters of GET /inventory/stock; None: the parameter is absent
StockFilters ==
    { [warehouse_id |-> "W1", item_id |-> "A"],
      [warehouse_id |-> "W2", item_id |-> "A"],
      [warehouse_id |-> None, item_id |-> None] }

\* limit: int = 200
DefaultLimit == 200

\* filt = {}; a parameter enters the filter only when it is truthy
matches(doc, filt) ==
    /\ filt.warehouse_id # None => doc.warehouse_id = filt.warehouse_id
    /\ filt.item_id # None => doc.item_id = filt.item_id

\* db["stock"].find(filt) from document n on, each with "_id" renamed to "id"
RECURSIVE find(_, _, _)
find(coll, filt, n) ==
    IF n > Len(coll) THEN <<>>
    ELSE (IF matches(coll[n], filt)
          THEN <<[id |-> n, warehouse_id |-> coll[n].warehouse_id,
                  item_id |-> coll[n].item_id, quantity |-> coll[n].quantity]>>
          ELSE <<>>) \o find(coll, filt, n + 1)

\* GET /inventory/stock: the matching stock documents, at most limit of them
get_stock(warehouse_id, item_id, limit) ==
    LET filt == [warehouse_id |-> warehouse_id, item_id |-> item_id]
        docs == find(stock, filt, 1)
    IN  /\ response' = [op |-> "get_stock", code |-> 200, quantity |-> 0,
                        body |-> SubSeq(docs, 1, Min({limit, Len(docs)}))]
        /\ UNCHANGED <<inventorymovement, stock, shipment, call>>

\* lines 148-155: the shipment document create_shipment builds
new_shipment(payload) ==
    [shipment_no |-> payload.shipment_no,
     origin_warehouse_id |-> payload.origin_warehouse_id,
     destination_warehouse_id |-> payload.destination_warehouse_id,
     status |-> "created",
     items |-> payload.items]

\* POST /shipments
create_shipment(payload) ==
    /\ IF ~ShipmentCreate(payload)
       THEN /\ response' = [op |-> "create_shipment", code |-> 422,
                            quantity |-> 0, body |-> <<>>]
            /\ UNCHANGED shipment
       ELSE /\ Len(shipment) < MaxShipments
            /\ shipment' = insert_one(shipment, new_shipment(payload))
            /\ response' = [op |-> "create_shipment", code |-> 200,
                            quantity |-> 0, body |-> <<>>]
    /\ UNCHANGED <<inventorymovement, stock, call>>

\* PATCH /shipments/{shipment_id}/status.  done: how many of the handler's
\* inventory_move calls return before create_document raises in the next one
\* (all of them: no failure)
update_shipment_status(shipment_id, body) ==
    IF ~ShipmentUpdateStatus(body)
    THEN /\ response' = [op |-> "update_shipment_status", code |-> 422,
                         quantity |-> 0, body |-> <<>>]
         /\ UNCHANGED <<inventorymovement, stock, shipment, call>>
    ELSE IF ~to_obj_id(shipment_id)
    THEN /\ response' = [op |-> "update_shipment_status", code |-> 400,
                         quantity |-> 0, body |-> <<>>]
         /\ UNCHANGED <<inventorymovement, stock, shipment, call>>
    ELSE IF find_shipment(shipment, shipment_id) = 0
    THEN /\ response' = [op |-> "update_shipment_status", code |-> 404,
                         quantity |-> 0, body |-> <<>>]
         /\ UNCHANGED <<inventorymovement, stock, shipment, call>>
    ELSE LET n == find_shipment(shipment, shipment_id)
             ship == shipment[n]
             mvs == shipment_moves(ship, body.status)
         IN  \E done \in 0 .. Len(mvs) :
             LET after == apply_moves(db, SubSeq(mvs, 1, done)) IN
             /\ BagCardinality(inventorymovement) + done <= MaxMovements
             /\ shipment' = set_status(shipment, n, body.status)
             /\ inventorymovement' = after.inventorymovement
             /\ stock' = after.stock
             /\ response' = [op |-> "update_shipment_status",
                             code |-> IF done = Len(mvs) THEN 200 ELSE 500,
                             quantity |-> 0, body |-> <<>>]
             /\ UNCHANGED call

Next ==
    \/ \E mv \in MovementInputs : inventory_move(mv)
    \/ \E payload \in ShipmentInputs : create_shipment(payload)
    \/ \E id \in ShipmentIdInputs, st \in StatusInputs :
          update_shipment_status(id, [status |-> st])
    \/ \E filt \in StockFilters :
          get_stock(filt.warehouse_id, filt.item_id, DefaultLimit)

Spec == Init /\ [][Next]_vars

\* ------------------------------------- handlers, one database call at a time
Ready(c) == call[c].pc \in {"idle", "done"}

\* the handler returns or raises: the caller holds the response
Reply(c, op, code, quantity) ==
    call' = [call EXCEPT ![c] = [Idle EXCEPT !.pc = "done", !.op = op,
                                             !.code = code, !.quantity = quantity]]

\* a caller enters inventory_move: the request body is validated first
move_begin(c, mv) ==
    /\ Ready(c)
    /\ IF ~InventoryMovement(mv)
       THEN Reply(c, "inventory_move", 422, 0)
       ELSE /\ call' = [call EXCEPT ![c] =
                          [Idle EXCEPT !.pc = "create", !.op = "inventory_move",
                                       !.todo = <<mv>>]]
    /\ UNCHANGED <<inventorymovement, stock, shipment, response>>

\* mutant: a failure of create_document is swallowed and the handler goes on
move_create_swallowing(c, persisted) ==
    /\ call[c].pc = "create"
    /\ IF persisted
       THEN /\ BagCardinality(inventorymovement) < MaxMovements
            /\ inventorymovement' = create_document(inventorymovement, Head(call[c].todo))
       ELSE UNCHANGED inventorymovement
    /\ call' = [call EXCEPT ![c].pc = "find"]
    /\ UNCHANGED <<stock, shipment, response>>

\* line 118: movement_id = create_document("inventorymovement", mv)
move_create(c, persisted) ==
    /\ call[c].pc = "create"
    /\ IF persisted
       THEN /\ BagCardinality(inventorymovement) < MaxMovements
            /\ inventorymovement' = create_document(inventorymovement, Head(call[c].todo))
            /\ call' = [call EXCEPT ![c].pc = "find"]
       ELSE /\ Reply(c, call[c].op, 500, 0)
            /\ UNCHANGED inventorymovement
    /\ UNCHANGED <<stock, shipment, response>>

\* line 122: doc = db["stock"].find_one(key)
move_find(c) ==
    /\ call[c].pc = "find"
    /\ call' = [call EXCEPT ![c].pc = "write",
                            ![c].doc = read_doc(stock, stock_key(Head(call[c].todo)))]
    /\ UNCHANGED <<inventorymovement, stock, shipment, response>>

\* lines 123-129: compute qty, update_one or insert_one, return
move_write(c) ==
    /\ call[c].pc = "write"
    /\ LET mv == Head(call[c].todo)
           qty == new_quantity(call[c].doc, mv)
       IN  /\ stock' = write_stock(stock, call[c].doc, mv, qty)
           /\ IF Tail(call[c].todo) # <<>>
              THEN /\ call' = [call EXCEPT ![c].pc = "create",
                                           ![c].todo = Tail(call[c].todo),
                                           ![c].doc = NoDoc]
                     ELSE Reply(c, call[c].op, 200,
                         IF call[c].op = "inventory_move" THEN qty ELSE 0)
    /\ UNCHANGED <<inventorymovement, shipment, response>>

\* lines 163-166: body validation, ship = db["shipment"].find_one(...), 404 when None
status_begin(c, shipment_id, body) ==
    /\ Ready(c)
    /\ IF ~ShipmentUpdateStatus(body)
       THEN Reply(c, "update_shipment_status", 422, 0)
       ELSE IF ~to_obj_id(shipment_id)
       THEN Reply(c, "update_shipment_status", 400, 0)
       ELSE IF find_shipment(shipment, shipment_id) = 0
       THEN Reply(c, "update_shipment_status", 404, 0)
       ELSE /\ call' = [call EXCEPT ![c] =
                          [Idle EXCEPT !.pc = "set_status",
                                       !.op = "update_shipment_status",
                                       !.shipment_id =
                                           find_shipment(shipment, shipment_id),
                                       !.status = body.status,
                                       !.ship = <<shipment[find_shipment(shipment,
                                                                         shipment_id)]>>]]
    /\ UNCHANGED <<inventorymovement, stock, shipment, response>>

\* mutant: the movements are issued without the status having been written
status_write_skipping(c) ==
    /\ call[c].pc = "set_status"
    /\ LET mvs == shipment_moves(call[c].ship[1], call[c].status)
       IN  IF mvs # <<>>
           THEN /\ call' = [call EXCEPT ![c].pc = "create", ![c].todo = mvs]
           ELSE Reply(c, "update_shipment_status", 200, 0)
    /\ UNCHANGED <<inventorymovement, stock, shipment, response>>

\* lines 168-169: the status write, then the movements of lines 172-182 are due
status_write(c) ==
    /\ call[c].pc = "set_status"
    /\ shipment' = set_status(shipment, call[c].shipment_id, call[c].status)
    /\ LET mvs == shipment_moves(call[c].ship[1], call[c].status)
       IN  IF mvs # <<>>
           THEN /\ call' = [call EXCEPT ![c].pc = "create", ![c].todo = mvs]
               ELSE Reply(c, "update_shipment_status", 200, 0)
    /\ UNCHANGED <<inventorymovement, stock, response>>

\* POST /shipments: validation and a single insert_one
shipment_insert(c, payload) ==
    /\ Ready(c)
    /\ IF ~ShipmentCreate(payload)
       THEN /\ Reply(c, "create_shipment", 422, 0)
            /\ UNCHANGED shipment
       ELSE /\ Len(shipment) < MaxShipments
            /\ shipment' = insert_one(shipment, new_shipment(payload))
            /\ Reply(c, "create_shipment", 200, 0)
    /\ UNCHANGED <<inventorymovement, stock, response>>

\* the requests concurrent callers send: one stock key, one shipment
ConcMovementInputs ==
    [type : {"in", "out"}, warehouse_id : MoveWarehouses, item_id : MoveItems,
     quantity : {0, 10}, reference : {None}]
ConcShipmentInputs == { p \in ShipmentInputs : p.destination_warehouse_id = "W2" }
ConcStatusInputs == {"picked", "delivered"}

\* the handlers' steps for the callers cs and the given request inputs
Steps(cs, movements, shipments, statuses) ==
    \/ \E c \in cs, mv \in movements : move_begin(c, mv)
    \/ \E c \in cs, persisted \in BOOLEAN : move_create(c, persisted)
    \/ \E c \in cs : move_find(c)
    \/ \E c \in cs : move_write(c)
    \/ \E c \in cs, id \in ShipmentIdInputs, st \in statuses :
          status_begin(c, id, [status |-> st])
    \/ \E c \in cs : status_write(c)
    \/ \E c \in cs, payload \in shipments : shipment_insert(c, payload)

\* one caller, every request input
StepNext == Steps({1}, MovementInputs, ShipmentInputs, StatusInputs)

StepSpec == Init /\ [][StepNext]_vars

\* all callers at once
ConcNext == Steps(Callers, ConcMovementInputs, ConcShipmentInputs, ConcStatusInputs)

ConcSpec == Init /\ [][ConcNext]_vars

\* ------------------------------------------------------ derived quantities
\* the quantity a stock query reports for a key (0 when there is no entry)
Quantity(coll, key) == read_doc(coll, key).quantity

StockKeys == [warehouse_id : Warehouses, item_id : Items]

RECURSIVE SumQuantities(_, _)
SumQuantities(recs, bag) ==
    IF recs = {} THEN 0
    ELSE LET m == CHOOSE x \in recs : TRUE
         IN  m.quantity * bag[m] + SumQuantities(recs \ {m}, bag)

\* the total quantity of the recorded movements of one type for one key
Moved(bag, type, key) ==
    SumQuantities({ m \in BagToSet(bag) : /\ m.type = type
                                         /\ m.warehouse_id = key.warehouse_id
                                         /\ m.item_id = key.item_id }, bag)

RECURSIVE SumCopies(_, _)
SumCopies(recs, bag) ==
    IF recs = {} THEN 0
    ELSE LET m == CHOOSE x \in recs : TRUE
         IN  bag[m] + SumCopies(recs \ {m}, bag)

\* how many recorded movements of one type carry a reference
Referencing(bag, type, reference) ==
    SumCopies({ m \in BagToSet(bag) : m.type = type /\ m.reference = reference }, bag)

\* the total quantity of a shipment's lines for one item
RECURSIVE LineTotal(_, _)
LineTotal(items, item) ==
    IF items = <<>> THEN 0
    ELSE (IF Head(items).item_id = item THEN Head(items).quantity ELSE 0)
         + LineTotal(Tail(items), item)

AllowedTransitions ==
    { <<"created", "picked">>, <<"picked", "in_transit">>, <<"in_transit", "delivered">>,
      <<"created", "cancelled">>, <<"picked", "cancelled">> }

\* a status request for a stored shipment, run by update_shipment_status
StatusStep(id, from, to) ==
    /\ find_shipment(shipment, id) # 0
    /\ to_obj_id(id)
    /\ shipment[id].status = from
    /\ response'.op = "update_shipment_status"
    /\ update_shipment_status(id, [status |-> to])

\* ------------------------------------------------------------------ claims

\* C1: for every (warehouse, item) key, whenever no call is in progress, the
\* stored quantity equals the sum of the recorded 'in' movements minus the sum
\* of the recorded 'out' movements of that key (0 when there is no entry).
C1_StockIsLedgerReplay ==
    \A key \in StockKeys :
        Quantity(stock, key) =
            Moved(inventorymovement, "in", key) - Moved(inventorymovement, "out", key)

\* C2: when callers run inventory_move concurrently on the same key, no update
\* is lost: once all calls have completed, the stored quantity of the key
\* equals the signed sum of all the movements submitted for it.
C2_NoLostUpdate ==
    (\A c \in Callers : Ready(c))
    => \A mv \in ConcMovementInputs :
          Quantity(stock, stock_key(mv)) =
              Moved(inventorymovement, "in", stock_key(mv))
              - Moved(inventorymovement, "out", stock_key(mv))

\* the caller read the shipment in status 'created' and requested 'picked'
PicksCreated(c) ==
    /\ call[c].op = "update_shipment_status"
    /\ call[c].status = "picked"
    /\ call[c].ship # <<>>
    /\ call[c].ship[1].status = "created"

\* C3: when two callers both read a shipment in status 'created' and both
\* request 'picked', exactly one succeeds and the other fails with
\* ConcurrentModification (409), so one set of out-movements is recorded: the
\* caller that finds the stored status no longer 'created' at its status write
\* gets 409 and changes nothing.
C3_PickedOnceUnderRace ==
    [][ \A c \in Callers :
            ( /\ PicksCreated(c)
              /\ status_write(c)
              /\ shipment[call[c].shipment_id].status # "created" )
            => /\ call'[c].pc = "done"
               /\ call'[c].code = 409
               /\ UNCHANGED <<shipment, inventorymovement, stock>> ]_vars

\* C4: a status update from current to requested succeeds only for the allowed
\* pairs; every other pair fails with InvalidTransition (409) and leaves the
\* shipment, the movement log and the stock unchanged.
C4_OnlyAllowedTransitions ==
    [][ \A id \in 1 .. Len(shipment), from \in StatusInputs, to \in StatusInputs :
            (StatusStep(id, from, to) /\ <<from, to>> \notin AllowedTransitions)
            => /\ response'.code = 409
               /\ UNCHANGED <<shipment, inventorymovement, stock>> ]_vars

\* C5: requesting 'picked' for a shipment already 'picked' fails with
\* InvalidTransition (409), records no further movement and leaves the stock
\* at the value it had after the first call.
C5_RepeatedPickedRejected ==
    [][ \A id \in 1 .. Len(shipment) :
            StatusStep(id, "picked", "picked")
            => /\ response'.code = 409
               /\ inventorymovement' = inventorymovement
               /\ stock' = stock ]_vars

\* C6: the movement log never holds more than one 'out' movement and never
\* more than one 'in' movement per line of a shipment.
C6_MovementsOncePerLine ==
    \A id \in 1 .. Len(shipment) :
        (\A other \in 1 .. Len(shipment) :
            other # id => shipment[other].shipment_no # shipment[id].shipment_no)
        => /\ Referencing(inventorymovement, "out", shipment[id].shipment_no)
                <= Len(shipment[id].items)
           /\ Referencing(inventorymovement, "in", shipment[id].shipment_no)
                <= Len(shipment[id].items)

\* a status request that update_shipment_status answers with 200
StatusDone(id, from, to) ==
    /\ response'.code = 200
    /\ StatusStep(id, from, to)

\* C7: for a shipment from W1 to W2 stepped created -> picked -> in_transit ->
\* delivered with no other activity: 'picked' lowers stock(W1, item) by the
\* line quantity for each line and changes no other stock; 'in_transit'
\* changes no stock; 'delivered' raises stock(W2, item) by the line quantity
\* for each line and changes no other stock.
C7_TransferMovesStock ==
    [][ \A id \in 1 .. Len(shipment) :
          LET ship == shipment[id] IN
          /\ StatusDone(id, "created", "picked")
             => \A key \in StockKeys :
                  Quantity(stock', key) =
                    Quantity(stock, key)
                    - (IF key.warehouse_id = ship.origin_warehouse_id
                       THEN LineTotal(ship.items, key.item_id) ELSE 0)
          /\ StatusDone(id, "picked", "in_transit")
             => \A key \in StockKeys : Quantity(stock', key) = Quantity(stock, key)
          /\ ( /\ StatusDone(id, "in_transit", "delivered")
               /\ ship.destination_warehouse_id \in Warehouses
               /\ ship.destination_warehouse_id # ship.origin_warehouse_id )
             => \A key \in StockKeys :
                  Quantity(stock', key) =
                    Quantity(stock, key)
                    + (IF key.warehouse_id = ship.destination_warehouse_id
                       THEN LineTotal(ship.items, key.item_id) ELSE 0) ]_vars

\* the scenario of C7 after its last step, from empty stock: 'picked' took the
\* line's 5 from (W1, A), 'delivered' added 5 to (W2, A)
C7_Witness ==
    /\ Len(shipment) >= 1
    /\ shipment[1].status = "delivered"
    /\ shipment[1].origin_warehouse_id = "W1"
    /\ shipment[1].destination_warehouse_id = "W2"
    /\ response = [op |-> "update_shipment_status", code |-> 200,
                   quantity |-> 0, body |-> <<>>]
    /\ Quantity(stock, [warehouse_id |-> "W1", item_id |-> "A"]) = -5
    /\ Quantity(stock, [warehouse_id |-> "W2", item_id |-> "A"]) = 5
    /\ BagCardinality(inventorymovement) = 2
    /\ Referencing(inventorymovement, "out", "SHP-1") = 1
    /\ Referencing(inventorymovement, "in", "SHP-1") = 1

\* C8: for a shipment with no destination_warehouse_id, the transition to
\* 'delivered' records no movement (so no 'in' movement for any warehouse)
\* and changes no stock entry: the movements referencing the shipment stay
\* those recorded before.
C8_ExternalDeliveryMovesNothing ==
    [][ \A id \in 1 .. Len(shipment) :
            ( /\ shipment[id].destination_warehouse_id = None
              /\ StatusStep(id, shipment[id].status, "delivered") )
            => /\ inventorymovement' = inventorymovement
               /\ stock' = stock
               /\ shipment'[id].status = "delivered" ]_vars

\* an external shipment delivered after 'picked': only its out-movements exist
C8_Witness ==
    /\ Len(shipment) >= 1
    /\ shipment[1].destination_warehouse_id = None
    /\ shipment[1].status = "delivered"
    /\ response = [op |-> "update_shipment_status", code |-> 200,
                   quantity |-> 0, body |-> <<>>]
    /\ Referencing(inventorymovement, "out", shipment[1].shipment_no)
          = Len(shipment[1].items)
    /\ Referencing(inventorymovement, "in", shipment[1].shipment_no) = 0

\* C9: a movement request with quantity 0 or negative fails with a validation
\* error (422), persists no movement record and changes no stock entry.
C9_NonPositiveQuantityRejected ==
    [][ \A mv \in MovementInputs :
            (mv.quantity <= 0 /\ inventory_move(mv))
            => /\ response' = [op |-> "inventory_move", code |-> 422,
                               quantity |-> 0, body |-> <<>>]
               /\ inventorymovement' = inventorymovement
               /\ stock' = stock ]_vars

\* a rejected movement request arriving when stock and movements exist
C9_Witness ==
    /\ response = [op |-> "inventory_move", code |-> 422, quantity |-> 0, body |-> <<>>]
    /\ inventorymovement # EmptyBag
    /\ stock # <<>>

\* C10: the movement record is persisted before the stock entry is updated,
\* and when persisting it fails the stock entry is not updated: every step
\* that changes the stock is the stock write of a caller whose movement is
\* already in the log, and a failed create_document ends the call with 500
\* and changes neither the log nor the stock.
C10_MovementBeforeStock ==
    [][ /\ stock' # stock
           => \E c \in Callers :
                 /\ call[c].pc = "write"
                 /\ BagIn(Head(call[c].todo), inventorymovement)
                 /\ move_write(c)
        /\ \A c \in Callers :
              move_create(c, FALSE)
              => /\ call'[c].pc = "done"
                 /\ call'[c].code = 500
                 /\ stock' = stock
                 /\ inventorymovement' = inventorymovement ]_vars

\* a call ended by a failed create_document while the key has a stock entry
C10_Witness ==
    \E c \in Callers :
        /\ call[c].pc = "done"
        /\ call[c].op = "inventory_move"
        /\ call[c].code = 500
        /\ stock # <<>>

\* C11: a status update for a shipment id that does not exist fails with
\* NotFound (404) and changes no shipment, no movement and no stock entry.
C11_UnknownShipmentNotFound ==
    [][ \A id \in ShipmentIdInputs, st \in StatusInputs :
            ( /\ id # InvalidId
              /\ id \notin 1 .. Len(shipment)
              /\ response'.op = "update_shipment_status"
              /\ update_shipment_status(id, [status |-> st]) )
            => /\ response' = [op |-> "update_shipment_status", code |-> 404,
                               quantity |-> 0, body |-> <<>>]
               /\ UNCHANGED <<shipment, inventorymovement, stock>> ]_vars

\* an unknown id answered with 404 while a shipment and movements exist
C11_Witness ==
    /\ response = [op |-> "update_shipment_status", code |-> 404,
                   quantity |-> 0, body |-> <<>>]
    /\ shipment # <<>>
    /\ inventorymovement # EmptyBag

\* C12: a stock query for a (warehouse, item) pair that no movement was ever
\* recorded for answers without an error and reports quantity 0 for the pair.
C12_UnmovedPairReportsZero ==
    [][ \A filt \in StockFilters :
            ( /\ filt.warehouse_id # None
              /\ filt.item_id # None
              /\ \A mv \in BagToSet(inventorymovement) : stock_key(mv) # filt
              /\ response'.op = "get_stock"
              /\ get_stock(filt.warehouse_id, filt.item_id, DefaultLimit) )
            => /\ response'.code = 200
               /\ \E n \in 1 .. Len(response'.body) :
                      /\ response'.body[n].warehouse_id = filt.warehouse_id
                      /\ response'.body[n].item_id = filt.item_id
                      /\ response'.body[n].quantity = 0 ]_vars

\* C13: when recording the movement of line k fails during a transition, the
\* movements and stock updates of lines 1..k-1 stay committed and the response
\* is a partial-failure result that names the lines 1..k-1 that succeeded.
C13_PartialFailureNamesLines ==
    [][ \A id \in 1 .. Len(shipment), st \in StatusInputs :
            ( /\ response'.op = "update_shipment_status"
              /\ response'.code = 500
              /\ update_shipment_status(id, [status |-> st]) )
            => LET mvs == shipment_moves(shipment[id], st)
                   k == BagCardinality(inventorymovement')
                            - BagCardinality(inventorymovement) + 1
                   after == apply_moves(db, SubSeq(mvs, 1, k - 1))
               IN  /\ k \in 1 .. Len(mvs)
                   /\ inventorymovement' = after.inventorymovement
                   /\ stock' = after.stock
                   /\ response'.body = [n \in 1 .. (k - 1) |-> n] ]_vars

TerminalStatuses == {"delivered", "cancelled"}

\* C14: 'delivered' and 'cancelled' are terminal: once a shipment's stored
\* status is one of them, no step changes its status or adds a movement that
\* references it.
C14_TerminalStatusesStay ==
    [][ \A id \in 1 .. Len(shipment) :
            shipment[id].status \in TerminalStatuses
            => /\ shipment'[id].status = shipment[id].status
               /\ \A type \in Types :
                      Referencing(inventorymovement', type, shipment[id].shipment_no)
                          = Referencing(inventorymovement, type,
                                        shipment[id].shipment_no) ]_vars

\* C15: a movement request whose type is neither 'in' nor 'out' is rejected
\* with a validation error (422), persists no movement record and changes no
\* stock entry (a request that meets a storage failure aside).
C15_UnknownTypeRejected ==
    [][ \A mv \in MovementInputs :
            ( /\ mv.type \notin {"in", "out"}
              /\ response'.op = "inventory_move"
              /\ response'.code # 500
              /\ inventory_move(mv) )
            => /\ response'.code = 422
               /\ inventorymovement' = inventorymovement
               /\ stock' = stock ]_vars

\* C16: a status update whose requested value is not one of created, picked,
\* in_transit, delivered, cancelled is rejected, so the stored status of
\* every shipment is always one of those five values.
C16_StoredStatusIsKnown ==
    \A id \in 1 .. Len(shipment) : shipment[id].status \in Statuses

\* C17: cancelling a shipment from 'created' or from 'picked' succeeds, records
\* no movement and changes no stock quantity: the 'out' movements recorded at
\* 'picked' are not reversed and the origin stock stays deducted.
C17_CancelMovesNothing ==
    [][ \A id \in 1 .. Len(shipment), from \in {"created", "picked"} :
            StatusStep(id, from, "cancelled")
            => /\ response'.code = 200
               /\ shipment'[id].status = "cancelled"
               /\ inventorymovement' = inventorymovement
               /\ stock' = stock ]_vars

\* cancel after pick: the shipment is cancelled, its 'out' movement is in the
\* log without a compensating 'in', and the origin stock is still deducted
C17_Witness ==
    /\ shipment # <<>>
    /\ shipment[1].status = "cancelled"
    /\ shipment[1].destination_warehouse_id = "W2"
    /\ response.op = "update_shipment_status"
    /\ response.code = 200
    /\ Referencing(inventorymovement, "out", "SHP-1") = 1
    /\ Referencing(inventorymovement, "in", "SHP-1") = 0
    /\ BagCardinality(inventorymovement) = 1
    /\ Quantity(stock, [warehouse_id |-> "W1", item_id |-> "A"]) = -5

\* C18: there is at most one stock entry per (warehouse, item) key, also when
\* two callers concurrently record the first movement for a key.
C18_OneStockEntryPerKey ==
    \A i \in 1 .. Len(stock), j \in 1 .. Len(stock) :
        stock_key(stock[i]) = stock_key(stock[j]) => i = j

\* C19: an 'out' movement whose quantity exceeds the quantity on hand is not
\* rejected: unless the storage fails it succeeds, the stock entry becomes the
\* previous quantity minus the movement quantity, a negative value, which the
\* call returns; and a stock query reports every stored quantity as it is.
C19_OverIssueGoesNegative ==
    [][ /\ \A mv \in MovementInputs :
              ( /\ mv.type = "out"
                /\ mv.quantity > 0
                /\ mv.quantity > Quantity(stock, stock_key(mv))
                /\ response'.op = "inventory_move"
                /\ inventory_move(mv) )
              => LET qty == Quantity(stock, stock_key(mv)) - mv.quantity
                 IN  /\ response'.code \in {200, 500}
                     /\ response'.code = 200
                        => /\ qty < 0
                           /\ response'.quantity = qty
                           /\ Quantity(stock', stock_key(mv)) = qty
                           /\ inventorymovement' = create_document(inventorymovement, mv)
        /\ \A filt \in StockFilters :
              ( /\ response'.op = "get_stock"
                /\ get_stock(filt.warehouse_id, filt.item_id, DefaultLimit) )
              => /\ response'.code = 200
                 /\ \A n \in 1 .. Len(stock) :
                        matches(stock[n], filt)
                        => \E m \in 1 .. Len(response'.body) :
                               /\ response'.body[m].id = n
                               /\ response'.body[m].quantity = stock[n].quantity
      ]_vars

\* a stock query that reports -10 for W1/A after 10 were issued from nothing
C19_Witness ==
    /\ response.op = "get_stock"
    /\ \E m \in 1 .. Len(response.body) :
           /\ response.body[m].warehouse_id = "W1"
           /\ response.body[m].item_id = "A"
           /\ response.body[m].quantity = -10
    /\ Moved(inventorymovement, "out", [warehouse_id |-> "W1", item_id |-> "A"]) = 10
    /\ Moved(inventorymovement, "in", [warehouse_id |-> "W1", item_id |-> "A"]) = 0

\* C20: update_shipment_status writes the requested status before it records
\* any movement of the transition: while its movements are being recorded the
\* stored status is already the requested one and stays so, and when the
\* recording of a movement fails the handler ends with the status written, the
\* movements of the lines before the failing one recorded and no other added.
C20_StatusBeforeMovements ==
    [][ \A c \in Callers :
            ( /\ call[c].op = "update_shipment_status"
              /\ call[c].pc \in {"create", "find", "write"} )
            => LET id == call[c].shipment_id
                   mvs == shipment_moves(call[c].ship[1], call[c].status)
                   done == Len(mvs) - Len(call[c].todo)
               IN  /\ shipment[id].status = call[c].status
                   /\ shipment'[id].status = call[c].status
                   /\ done \in 0 .. (Len(mvs) - 1)
                   /\ call[c].todo = SubSeq(mvs, done + 1, Len(mvs))
                   /\ ( /\ call[c].pc = "create"
                        /\ call'[c].pc = "done" )
                      => /\ call'[c].code = 500
                         /\ inventorymovement' = inventorymovement
                         /\ stock' = stock
                         /\ \A n \in 1 .. done :
                                CopiesIn(mvs[n], inventorymovement) >= 1 ]_vars

\* 'picked' for a two-line shipment failed at its second line: the status is
\* 'picked' and only the first line's movement is recorded
C20_Witness ==
    /\ call[1].pc = "done"
    /\ call[1].op = "update_shipment_status"
    /\ call[1].code = 500
    /\ shipment # <<>>
    /\ Len(shipment[1].items) = 2
    /\ shipment[1].status = "picked"
    /\ BagCardinality(inventorymovement) = 1
    /\ Referencing(inventorymovement, "out", "SHP-1") = 1

====
